---- MODULE Spec2Model ----
(***************************************************************************)
(* Model of the community-dashboard repository:                            *)
(*   - the useScrollRestoration hook (src/lib/hooks/useScrollRestoration.ts)*)
(*     together with the browser facilities it uses (window.scrollY,       *)
(*     window.scrollTo, requestAnimationFrame);                            *)
(*   - the GET handler of the people API (src/unnamed/part_000, 234-285).  *)
(***************************************************************************)
EXTENDS Integers, Sequences, FiniteSets, TLC

\* ------------------------------------------------------------------ bounds
\* Scroll offsets range over 0..MaxScroll.
MaxScroll == 2
\* At most MaxRestores restorations are scheduled in one behaviour.
MaxRestores == 2
\* The directory listing holds at most MaxFiles files of at most MaxEntries entries.
MaxFiles == 2
MaxEntries == 2
\* total_points range over 1..MaxPoints, updatedAt over 0..MaxStamp.
MaxPoints == 2
MaxStamp == 2

VARIABLES
    \* --- refs of the hook (useScrollRestoration.ts 8-11)
    savedScrollY,       \* savedScrollY.current
    hasMounted,         \* hasMounted.current
    prevIsActive,       \* prevIsActive.current
    skipNextAutoSave,   \* skipNextAutoSave.current
    \* --- browser
    scrollY,            \* window.scrollY
    rafQueue,           \* pending requestAnimationFrame callbacks of the hook
    phase,              \* "idle": between frames; "rendering": this frame's
                        \* animation callbacks have run, its layout/paint has not
    scrollLog,          \* the restorations whose window.scrollTo has been called,
                        \* in the order of the calls
    alive,              \* the component using the hook is mounted
    \* --- history
    scheduled,          \* the number of restorations scheduled so far
    lastOp,             \* the last operation, its input, the state it started from
                        \* and, for a frame, the callbacks that called scrollTo in it
    \* --- the GET handler (part_000 234-285)
    pc,                 \* where the handler is: "off", "start", "files", "entries", "done"
    allContributors,    \* the Map, as its entries in insertion order
    latestUpdatedAt,
    filesRead,          \* files of the directory listing taken so far
    entriesRead,        \* entries of the current file taken so far
    response,           \* what the handler returned
    \* --- history of the handler's input
    curBad,             \* the file being processed holds an entry that raises an error
    goodStamps,         \* updatedAt of every file processed without an error
    goodEntries,        \* entries of every file processed without an error
    failed              \* the processing of some file has raised an error

hookVars == <<savedScrollY, hasMounted, prevIsActive, skipNextAutoSave, scrollY,
              rafQueue, phase, scrollLog, alive, scheduled, lastOp>>

getVars == <<pc, allContributors, latestUpdatedAt, filesRead, entriesRead, response,
             curBad, goodStamps, goodEntries, failed>>

vars == <<hookVars, getVars>>

Offsets == 0..MaxScroll

NoPre == [saved |-> 0, skip |-> FALSE, was |-> FALSE, mounted |-> FALSE, y |-> 0]

\* what lastOp holds after a step of the browser that calls no scrollTo
EnvOp == [op |-> "env", flag |-> FALSE, pre |-> NoPre, fired |-> <<>>]

Pre == [saved |-> savedScrollY, skip |-> skipNextAutoSave, was |-> prevIsActive,
        mounted |-> hasMounted, y |-> scrollY]

\* ------------------------------------------------------------- the hook
\* useRef(0), useRef(false), useRef(isActive), useRef(false): prevIsActive starts
\* as the isActive of the first render, which may be either value.
HookInit ==
    /\ savedScrollY = 0
    /\ hasMounted = FALSE
    /\ prevIsActive \in BOOLEAN
    /\ skipNextAutoSave = FALSE
    /\ scrollY \in Offsets
    /\ rafQueue = <<>>
    /\ phase = "idle"
    /\ scrollLog = <<>>
    /\ alive = TRUE
    /\ scheduled = 0
    /\ lastOp = [op |-> "init", flag |-> FALSE, pre |-> NoPre, fired |-> <<>>]

\* line 23: wasActive && !isActive
IsDeactivation(wasActive, isActive) == wasActive /\ ~isActive

IsActivationAnyPrev(wasActive, isActive) == isActive
\* line 39: !wasActive && isActive
IsActivation(wasActive, isActive) == ~wasActive /\ isActive

ShouldCommitAlways(y, saved) == TRUE
ShouldCommitBoth(y, saved) == y # 0 /\ saved = 0
\* line 32: y !== 0 || savedScrollY.current === 0
ShouldCommit(y, saved) == y # 0 \/ saved = 0

\* lines 44-45: the scrollTo sits inside two chained requestAnimationFrame calls
RafDepth == 2

OnMountNotMarked ==
    UNCHANGED <<hasMounted, savedScrollY, skipNextAutoSave, rafQueue, scheduled>>
\* lines 17-20: the first run of the effect only marks the hook mounted
OnMount ==
    /\ hasMounted' = TRUE
    /\ UNCHANGED <<savedScrollY, skipNextAutoSave, rafQueue, scheduled>>

OnDeactivateFlagKept ==
    /\ IF skipNextAutoSave
       THEN UNCHANGED <<savedScrollY, skipNextAutoSave>>
       ELSE /\ savedScrollY' = IF ShouldCommit(scrollY, savedScrollY)
                               THEN scrollY ELSE savedScrollY
            /\ UNCHANGED skipNextAutoSave
    /\ UNCHANGED <<hasMounted, rafQueue, scheduled>>
\* lines 23-36: save when the list becomes inactive
OnDeactivate ==
    /\ IF skipNextAutoSave
       THEN /\ skipNextAutoSave' = FALSE
            /\ UNCHANGED savedScrollY
       ELSE /\ savedScrollY' = IF ShouldCommit(scrollY, savedScrollY)
                               THEN scrollY ELSE savedScrollY
            /\ UNCHANGED skipNextAutoSave
    /\ UNCHANGED <<hasMounted, rafQueue, scheduled>>

\* lines 40, 44-48: const y = savedScrollY.current is captured by the callbacks.
\* A pending callback also remembers what savedScrollY was at its transition (s),
\* how many animation frames have run it (frames) and how many layout/paint
\* passes have completed since (paints).
Schedule ==
    /\ scheduled < MaxRestores
    /\ rafQueue' = Append(rafQueue, [id |-> scheduled + 1, y |-> savedScrollY,
                                     s |-> savedScrollY, frames |-> 0, paints |-> 0])
    /\ scheduled' = scheduled + 1

OnActivateNoZeroCheck ==
    /\ Schedule
    /\ UNCHANGED <<hasMounted, savedScrollY, skipNextAutoSave>>
\* lines 39-49: restore when the list becomes active again
OnActivate ==
    /\ IF savedScrollY = 0
       THEN UNCHANGED <<rafQueue, scheduled>>
       ELSE Schedule
    /\ UNCHANGED <<hasMounted, savedScrollY, skipNextAutoSave>>

\* lines 13-50: one run of the layout effect with the rendered isActive. The first
\* run happens in the commit of the render that initialised prevIsActive, so its
\* isActive equals the ref; later runs are taken with either value (deps change,
\* or a repeated run with the same value as under StrictMode).
Observe(isActive) ==
    /\ alive
    /\ hasMounted \/ isActive = prevIsActive
    /\ LET wasActive == prevIsActive IN
       /\ prevIsActive' = isActive
       /\ IF ~hasMounted THEN OnMount
          ELSE IF IsDeactivation(wasActive, isActive) THEN OnDeactivate
          ELSE IF IsActivation(wasActive, isActive) THEN OnActivate
          ELSE UNCHANGED <<hasMounted, savedScrollY, skipNextAutoSave, rafQueue, scheduled>>
    /\ lastOp' = [op |-> "observe", flag |-> isActive, pre |-> Pre, fired |-> <<>>]
    /\ UNCHANGED <<scrollY, phase, scrollLog, alive>>
    /\ UNCHANGED getVars

\* lines 53-56: the returned saveScrollPosition; callable once the component has
\* committed and while it is mounted
SaveScrollPosition ==
    /\ alive
    /\ hasMounted
    /\ skipNextAutoSave' = TRUE
    /\ savedScrollY' = scrollY
    /\ lastOp' = [op |-> "save", flag |-> FALSE, pre |-> NoPre, fired |-> <<>>]
    /\ UNCHANGED <<hasMounted, prevIsActive, scrollY, rafQueue, phase, scrollLog,
                   alive, scheduled>>
    /\ UNCHANGED getVars

\* ---------------------------------------------------------- the browser
\* The user (or other code) scrolls the page: window.scrollY read at lines 29, 55.
Scroll(y) ==
    /\ y # scrollY
    /\ scrollY' = y
    /\ lastOp' = EnvOp
    /\ UNCHANGED <<savedScrollY, hasMounted, prevIsActive, skipNextAutoSave, rafQueue,
                   phase, scrollLog, alive, scheduled>>
    /\ UNCHANGED getVars

Ran(q) == [i \in 1..Len(q) |-> [q[i] EXCEPT !.frames = @ + 1]]
FiresAfterOneFrame(r) == r.frames >= 1
\* the inner callback, the one that calls scrollTo, runs in the RafDepth-th frame
Fires(r) == r.frames >= RafDepth
Commands(q) == [i \in 1..Len(q) |-> q[i].id]

ScrollTargetCurrent(r) == savedScrollY
\* line 46: top: y, the const captured at line 40, not savedScrollY.current
ScrollTarget(r) == r.y
Called(q) == [i \in 1..Len(q) |-> [q[i] EXCEPT !.y = ScrollTarget(q[i])]]

\* lines 44-48: the start of an animation frame runs every callback registered
\* before it; an outer callback registers the inner one for the next frame, an
\* inner one calls window.scrollTo({top: y}). Nothing cancels a callback.
RunAnimationFrameCallbacks ==
    /\ phase = "idle"
    /\ phase' = "rendering"
    /\ LET ran == Ran(rafQueue)
           fired == Called(SelectSeq(ran, Fires))
           kept == SelectSeq(ran, LAMBDA r : ~Fires(r))
       IN /\ rafQueue' = kept
          /\ scrollLog' = scrollLog \o Commands(fired)
          /\ scrollY' = IF fired = <<>> THEN scrollY ELSE fired[Len(fired)].y
          /\ lastOp' = IF fired = <<>> THEN EnvOp
                        ELSE [op |-> "frame", flag |-> FALSE, pre |-> NoPre,
                              fired |-> fired]
    /\ UNCHANGED <<savedScrollY, hasMounted, prevIsActive, skipNextAutoSave, alive,
                   scheduled>>
    /\ UNCHANGED getVars

\* The frame's layout and paint complete, after its animation callbacks.
Paint ==
    /\ phase = "rendering"
    /\ phase' = "idle"
    /\ rafQueue' = [i \in 1..Len(rafQueue) |-> [rafQueue[i] EXCEPT !.paints = @ + 1]]
    /\ lastOp' = EnvOp
    /\ UNCHANGED <<savedScrollY, hasMounted, prevIsActive, skipNextAutoSave, scrollY,
                   scrollLog, alive, scheduled>>
    /\ UNCHANGED getVars

\* The component is torn down. The effect (13-50) returns no cleanup function, so
\* the callbacks already registered stay registered.
Unmount ==
    /\ alive
    /\ hasMounted
    /\ alive' = FALSE
    /\ lastOp' = EnvOp
    /\ UNCHANGED <<savedScrollY, hasMounted, prevIsActive, skipNextAutoSave, scrollY,
                   rafQueue, phase, scrollLog, scheduled>>
    /\ UNCHANGED getVars

\* ------------------------------------------------- the GET handler
\* Usernames are sequences of characters, so that String.includes is a computation.
Amy == <<"a", "m", "y">>
Bob == <<"b", "o", "b">>
Abbot == <<"a", "b", "b", "o", "t">>
Usernames == {Amy, Bob, Abbot}

BotTag == <<"[", "b", "o", "t", "]">>
Bot == <<"b", "o", "t">>
Dependabot == <<"d", "e", "p", "e", "n", "d", "a", "b", "o", "t">>
Renovate == <<"r", "e", "n", "o", "v", "a", "t", "e">>
GithubActions == <<"g", "i", "t", "h", "u", "b", "-", "a", "c", "t", "i", "o", "n", "s">>

Points == 1..MaxPoints
Stamps == 0..MaxStamp
Entries == [username : Usernames, total_points : Points]

\* String.prototype.includes
Includes(s, sub) ==
    \E i \in 1..(Len(s) - Len(sub) + 1) : SubSeq(s, i, i + Len(sub) - 1) = sub

\* lines 253-257
IsBotUsername(u) ==
    \/ Includes(u, BotTag)
    \/ Includes(u, Bot)
    \/ Includes(u, Dependabot)
    \/ Includes(u, Renovate)
    \/ Includes(u, GithubActions)

\* Map.get (line 261): the position of the key, 0 when absent
Find(m, u) ==
    IF \E k \in DOMAIN m : m[k].username = u
    THEN CHOOSE k \in DOMAIN m : m[k].username = u
    ELSE 0

\* Map.set (line 263): a new key goes last, an existing key keeps its place
MapSet(m, entry) ==
    IF Find(m, entry.username) = 0
    THEN Append(m, entry)
    ELSE [m EXCEPT ![Find(m, entry.username)] = entry]

ShouldReplaceAlways(m, entry) == TRUE
\* line 262: !existing || entry.total_points > existing.total_points
ShouldReplace(m, entry) ==
    \/ Find(m, entry.username) = 0
    \/ entry.total_points > m[Find(m, entry.username)].total_points

\* lines 253-264: the body of the loop over the entries of a file
MergeEntry(m, entry) ==
    IF IsBotUsername(entry.username) THEN m
    ELSE IF ShouldReplace(m, entry) THEN MapSet(m, entry)
    ELSE m

RECURSIVE InsertDesc(_, _)
InsertDesc(sorted, e) ==
    IF sorted = <<>> THEN <<e>>
    ELSE IF Head(sorted).total_points >= e.total_points
         THEN <<Head(sorted)>> \o InsertDesc(Tail(sorted), e)
         ELSE <<e>> \o sorted

RECURSIVE SortDesc(_)
\* lines 271-272: Array.prototype.sort by descending total_points (a stable sort)
SortDesc(m) ==
    IF m = <<>> THEN <<>>
    ELSE InsertDesc(SortDesc(SubSeq(m, 1, Len(m) - 1)), m[Len(m)])

NoResponse == [status |-> 0, updatedAt |-> 0, people |-> <<>>]

GetInit ==
    /\ pc = "start"
    /\ allContributors = <<>>
    /\ latestUpdatedAt = 0
    /\ filesRead = 0
    /\ entriesRead = 0
    /\ response = NoResponse
    /\ curBad = FALSE
    /\ goodStamps = {}
    /\ goodEntries = {}
    /\ failed = FALSE

\* lines 236-241: the directory is listed; the listing holds up to MaxFiles files
ReadDir ==
    /\ pc = "start"
    /\ pc' = "files"
    /\ UNCHANGED <<allContributors, latestUpdatedAt, filesRead, entriesRead, response,
                   curBad, goodStamps, goodEntries, failed>>
    /\ UNCHANGED hookVars

\* lines 238, 278-284: readdirSync throws, the outer catch answers 500
ReadDirFails ==
    /\ pc = "start"
    /\ pc' = "done"
    /\ response' = [status |-> 500, updatedAt |-> 0, people |-> <<>>]
    /\ UNCHANGED <<allContributors, latestUpdatedAt, filesRead, entriesRead,
                   curBad, goodStamps, goodEntries, failed>>
    /\ UNCHANGED hookVars

\* lines 245-250: the next file is read and parsed, its updatedAt is taken. The
\* file's content decides whether one of its entries will raise an error (bad).
OpenFile(updatedAt, bad) ==
    /\ pc = "files"
    /\ filesRead < MaxFiles
    /\ filesRead' = filesRead + 1
    /\ latestUpdatedAt' = IF updatedAt > latestUpdatedAt THEN updatedAt
                          ELSE latestUpdatedAt
    /\ entriesRead' = 0
    /\ curBad' = bad
    /\ goodStamps' = IF bad THEN goodStamps ELSE goodStamps \cup {updatedAt}
    /\ pc' = "entries"
    /\ UNCHANGED <<allContributors, response, goodEntries, failed>>
    /\ UNCHANGED hookVars

\* lines 246, 266-268: readFileSync or JSON.parse throws; the file is logged and
\* the loop goes on to the next file
FileUnreadable ==
    /\ pc = "files"
    /\ filesRead < MaxFiles
    /\ filesRead' = filesRead + 1
    /\ failed' = TRUE
    /\ UNCHANGED <<pc, allContributors, latestUpdatedAt, entriesRead, response,
                   curBad, goodStamps, goodEntries>>
    /\ UNCHANGED hookVars

\* lines 252-265: one entry of the current file
ProcessEntry(entry) ==
    /\ pc = "entries"
    /\ entriesRead < MaxEntries
    /\ entriesRead' = entriesRead + 1
    /\ allContributors' = MergeEntry(allContributors, entry)
    /\ goodEntries' = IF curBad THEN goodEntries ELSE goodEntries \cup {entry}
    /\ UNCHANGED <<pc, latestUpdatedAt, filesRead, response, curBad, goodStamps, failed>>
    /\ UNCHANGED hookVars

\* lines 252-253, 266-268: the next entry has no username (entry.username.includes
\* throws), or entries cannot be iterated; the catch logs the file and the loop
\* goes on to the next file. What the file has changed so far stays changed.
EntryFails ==
    /\ pc = "entries"
    /\ curBad
    /\ pc' = "files"
    /\ failed' = TRUE
    /\ UNCHANGED <<allContributors, latestUpdatedAt, filesRead, entriesRead, response,
                   curBad, goodStamps, goodEntries>>
    /\ UNCHANGED hookVars

\* line 252: the entries of the current file are exhausted
EndFile ==
    /\ pc = "entries"
    /\ ~curBad
    /\ pc' = "files"
    /\ UNCHANGED <<allContributors, latestUpdatedAt, filesRead, entriesRead, response,
                   curBad, goodStamps, goodEntries, failed>>
    /\ UNCHANGED hookVars

\* lines 271-277: no file is left; the merged entries are sorted and returned
Respond ==
    /\ pc = "files"
    /\ pc' = "done"
    /\ response' = [status |-> 200, updatedAt |-> latestUpdatedAt,
                    people |-> SortDesc(allContributors)]
    /\ UNCHANGED <<allContributors, latestUpdatedAt, filesRead, entriesRead,
                   curBad, goodStamps, goodEntries, failed>>
    /\ UNCHANGED hookVars

\* ------------------------------------------------------- specifications
\* The handler is not running while the hook is explored, and the other way round.
GetOff ==
    /\ pc = "off"
    /\ allContributors = <<>>
    /\ latestUpdatedAt = 0
    /\ filesRead = 0
    /\ entriesRead = 0
    /\ response = NoResponse
    /\ curBad = FALSE
    /\ goodStamps = {}
    /\ goodEntries = {}
    /\ failed = FALSE

HookOff ==
    /\ HookInit
    /\ prevIsActive = FALSE
    /\ scrollY = 0

Init == HookInit /\ GetOff

Next ==
    \/ \E f \in BOOLEAN : Observe(f)
    \/ SaveScrollPosition
    \/ \E y \in Offsets : Scroll(y)
    \/ RunAnimationFrameCallbacks
    \/ Paint
    \/ Unmount

Spec == Init /\ [][Next]_vars

\* Frames keep occurring: the browser keeps running animation callbacks and
\* painting, in turn (one of the two is enabled in every state).
FrameStep == RunAnimationFrameCallbacks \/ Paint
FrameSpec == Spec /\ WF_vars(FrameStep)

InitGet == HookOff /\ GetInit

NextGet ==
    \/ ReadDir
    \/ ReadDirFails
    \/ \E t \in Stamps, bad \in BOOLEAN : OpenFile(t, bad)
    \/ FileUnreadable
    \/ \E e \in Entries : ProcessEntry(e)
    \/ EntryFails
    \/ EndFile
    \/ Respond

SpecGet == InitGet /\ [][NextGet]_vars

\* ------------------------------------------------------- hook properties
Op == lastOp.op
P == lastOp.pre
\* the step being taken is a run of the effect that sees the given transition
DeactivationStep == lastOp'.op = "observe" /\ hasMounted /\ prevIsActive /\ ~lastOp'.flag
ActivationStep == lastOp'.op = "observe" /\ hasMounted /\ ~prevIsActive /\ lastOp'.flag
\* the last step was such a run
WasDeactivation == Op = "observe" /\ P.mounted /\ P.was /\ ~lastOp.flag
WasActivation == Op = "observe" /\ P.mounted /\ ~P.was /\ lastOp.flag

\* C1: savedScrollY changes only in a saveScrollPosition call or in an
\* Active->Inactive transition whose scroll reading is non-zero; a deactivation
\* that reads 0 never replaces a non-zero saved offset.
C1_SavedChangesOnlyBySaveOrNonZeroRead ==
    [][ /\ (savedScrollY' # savedScrollY) =>
              \/ lastOp'.op = "save"
              \/ DeactivationStep /\ scrollY # 0 /\ savedScrollY' = scrollY
        /\ (DeactivationStep /\ scrollY = 0 /\ savedScrollY # 0) =>
              savedScrollY' = savedScrollY ]_vars

C1_Witness ==
    /\ WasDeactivation /\ ~P.skip
    /\ P.y = 0 /\ P.saved # 0
    /\ savedScrollY = P.saved

\* C2: saveScrollPosition captures the current offset X and arms the flag; the
\* saved offset stays X until and through the next Active->Inactive transition,
\* whatever the offset reads then; that transition clears the flag, nothing else
\* does, and only saveScrollPosition sets it, so one call skips one automatic
\* save and the deactivation after it saves normally.
C2_ExplicitSaveSuppressesNextAutoSaveOnce ==
    [][ /\ (lastOp'.op = "save") => (savedScrollY' = scrollY /\ skipNextAutoSave')
        /\ (skipNextAutoSave /\ lastOp'.op # "save") => savedScrollY' = savedScrollY
        /\ (skipNextAutoSave /\ DeactivationStep) => ~skipNextAutoSave'
        /\ (skipNextAutoSave /\ ~DeactivationStep) => skipNextAutoSave'
        /\ (~skipNextAutoSave /\ lastOp'.op # "save") => ~skipNextAutoSave'
        /\ (~skipNextAutoSave /\ DeactivationStep) =>
              savedScrollY' = IF scrollY # 0 \/ savedScrollY = 0
                              THEN scrollY ELSE savedScrollY ]_vars

C2_Witness ==
    /\ WasDeactivation /\ P.skip
    /\ P.y = 0 /\ P.saved # 0
    /\ savedScrollY = P.saved
    /\ ~skipNextAutoSave

Issued(i) == \E k \in DOMAIN scrollLog : scrollLog[k] = i
IssuedOnce == \A j, k \in DOMAIN scrollLog : scrollLog[j] = scrollLog[k] => j = k
\* the scrollTo calls of the last frame carry the offset saved at their transition,
\* and the page is where the last of them put it
IssuesTheScheduledOffset ==
    /\ \A k \in DOMAIN lastOp.fired :
          /\ lastOp.fired[k].id \in 1..scheduled
          /\ lastOp.fired[k].y = lastOp.fired[k].s
          /\ Issued(lastOp.fired[k].id)
    /\ lastOp.fired # <<>> => scrollY = lastOp.fired[Len(lastOp.fired)].y
\* a restoration is pending or issued, never both, never twice
PendingOrIssuedOnce ==
    \A i \in 1..scheduled :
        Cardinality({k \in DOMAIN rafQueue : rafQueue[k].id = i})
          + Cardinality({k \in DOMAIN scrollLog : scrollLog[k] = i}) = 1

\* C3 (as stated): every scroll-to is issued only after two rendering/layout
\* passes have completed since its Inactive->Active transition.
C3_IssuedAfterTwoCompletedPasses ==
    /\ IssuesTheScheduledOffset
    /\ \A k \in DOMAIN lastOp.fired : lastOp.fired[k].paints >= 2

\* C3 (amended): an Inactive->Active transition seen with savedScrollY = s # 0
\* schedules one restoration of s; if frames keep occurring, exactly one
\* scroll-to s is issued for it, by the callback phase of the second animation
\* frame after the transition, hence after at least one completed
\* rendering/layout pass and before that second frame's own pass.
C3_RestoreOnceInSecondFrame ==
    /\ [][ (ActivationStep /\ savedScrollY # 0) =>
              /\ scheduled' = scheduled + 1
              /\ Len(rafQueue') = Len(rafQueue) + 1
              /\ rafQueue'[Len(rafQueue')].id = scheduled'
              /\ rafQueue'[Len(rafQueue')].s = savedScrollY ]_vars
    /\ [](IssuedOnce /\ PendingOrIssuedOnce /\ IssuesTheScheduledOffset)
    /\ [](\A k \in DOMAIN lastOp.fired :
              lastOp.fired[k].frames = 2 /\ lastOp.fired[k].paints >= 1)
    /\ [][ /\ scheduled' >= scheduled
            /\ \A i \in 1..MaxRestores : Issued(i) => Issued(i)' ]_vars
    \* a restoration scheduled stays scheduled and one issued stays issued, so
    \* this says that each restoration, once scheduled, is eventually issued
    /\ \A i \in 1..MaxRestores : []<>(scheduled < i \/ Issued(i))

C3_Witness ==
    /\ Op = "frame"
    /\ \E k \in DOMAIN lastOp.fired :
           /\ lastOp.fired[k].y = lastOp.fired[k].s
           /\ lastOp.fired[k].y = MaxScroll
           /\ lastOp.fired[k].paints = 1
           /\ Issued(lastOp.fired[k].id)
    /\ scrollY = MaxScroll

\* C4: after the first observation, an Active->Inactive transition with the flag
\* not armed and scroll offset y stores y whenever y is non-zero or the stored
\* offset is zero.
C4_SaveOnDeactivate ==
    (WasDeactivation /\ ~P.skip /\ (P.y # 0 \/ P.saved = 0)) => savedScrollY = P.y

C4_Witness ==
    /\ WasDeactivation /\ ~P.skip
    /\ P.y # 0 /\ P.saved # 0 /\ P.saved # P.y
    /\ savedScrollY = P.y

\* C5: the first run of the effect, for either flag and any scroll offset, records
\* the flag and marks the hook mounted; it changes no saved offset, arms nothing
\* and schedules or issues no scroll command.
C5_FirstObservationOnlyMounts ==
    [][ (lastOp'.op = "observe" /\ ~hasMounted) =>
            /\ hasMounted'
            /\ prevIsActive' = lastOp'.flag
            /\ UNCHANGED <<savedScrollY, skipNextAutoSave, rafQueue, scrollLog,
                           scheduled, scrollY>> ]_vars

C5_Witness ==
    /\ Op = "observe" /\ ~P.mounted /\ lastOp.flag
    /\ P.y # 0
    /\ hasMounted /\ savedScrollY = 0 /\ rafQueue = <<>>

\* C6: an Inactive->Active transition seen while savedScrollY = 0 schedules
\* nothing and issues nothing; no callback ever pending and no command ever
\* issued carries offset 0.
C6_NoRestoreWhenNothingSaved ==
    /\ [][ (ActivationStep /\ savedScrollY = 0) =>
              UNCHANGED <<rafQueue, scrollLog, scheduled, scrollY, savedScrollY>> ]_vars
    /\ [](/\ \A k \in DOMAIN rafQueue : rafQueue[k].y # 0
          /\ \A k \in DOMAIN lastOp.fired : lastOp.fired[k].y # 0)

C6_Witness ==
    /\ WasActivation /\ P.saved = 0
    /\ P.y # 0
    /\ rafQueue = <<>> /\ scrollLog = <<>>

\* C7: a run of the effect whose flag equals the previously observed flag changes
\* nothing: not the saved offset, not the flag, and it schedules no command.
C7_RepeatedObservationIsNoOp ==
    [][ (lastOp'.op = "observe" /\ hasMounted /\ lastOp'.flag = prevIsActive) =>
            UNCHANGED <<savedScrollY, skipNextAutoSave, hasMounted, prevIsActive,
                        rafQueue, scrollLog, scheduled, scrollY>> ]_vars

C7_Witness ==
    /\ Op = "observe" /\ P.mounted /\ P.was /\ lastOp.flag
    /\ P.saved # 0 /\ P.skip
    /\ rafQueue = <<>> /\ scheduled = 0

\* C8: no scroll-to command is issued after the component has been torn down.
C8_NoScrollAfterTeardown ==
    (Op = "frame" /\ lastOp.fired # <<>>) => alive

\* C11: a pending restoration is untouched by every run of the effect and every
\* saveScrollPosition call made while it is pending, whatever transition the run
\* sees and whatever it does to savedScrollY; if frames keep occurring its scrollTo
\* is called exactly once, with the offset savedScrollY held at the scheduling
\* transition, also when savedScrollY holds another value at the call.
C11_PendingRestorationIsIndependent ==
    /\ [][ (lastOp'.op \in {"observe", "save"}) =>
              /\ scrollLog' = scrollLog
              /\ Len(rafQueue') >= Len(rafQueue)
              /\ \A k \in DOMAIN rafQueue : rafQueue'[k] = rafQueue[k] ]_vars
    /\ [](\A k \in DOMAIN rafQueue : rafQueue[k].y = rafQueue[k].s)
    /\ [](\A k \in DOMAIN lastOp.fired :
              /\ lastOp.fired[k].y = lastOp.fired[k].s
              /\ Issued(lastOp.fired[k].id))
    /\ [](PendingOrIssuedOnce)
    /\ [][ \A i \in 1..MaxRestores : Issued(i) => Issued(i)' ]_vars
    /\ \A i \in 1..MaxRestores : []<>(scheduled < i \/ Issued(i))

\* the first restoration is issued with its own offset after a second one was
\* scheduled and savedScrollY was given another value
C11_Witness ==
    /\ Op = "frame"
    /\ scheduled = 2
    /\ \E k \in DOMAIN lastOp.fired :
           /\ lastOp.fired[k].id = 1
           /\ lastOp.fired[k].y = lastOp.fired[k].s
           /\ lastOp.fired[k].y # savedScrollY
           /\ scrollY = lastOp.fired[k].y
    /\ \E k \in DOMAIN rafQueue : rafQueue[k].id = 2 /\ rafQueue[k].y = savedScrollY
    /\ skipNextAutoSave

\* ------------------------------------------------ handler properties
\* a bot-like username contains one of the five markers
BotMarkers == {BotTag, Bot, Dependabot, Renovate, GithubActions}
BotLike(u) == \E m \in BotMarkers : Includes(u, m)
PeopleNames(E) == {e.username : e \in {x \in E : ~BotLike(x.username)}}
BestPoints(u, E) ==
    CHOOSE p \in {e.total_points : e \in {x \in E : x.username = u}} :
        \A e \in E : e.username = u => p >= e.total_points
Latest(S) == IF S = {} THEN 0 ELSE CHOOSE t \in S : \A u \in S : t >= u
\* the list holds exactly one entry per non-bot username of E, with its highest score
IsMergeOf(people, E) ==
    /\ \A u \in PeopleNames(E) :
          /\ Cardinality({k \in DOMAIN people : people[k].username = u}) = 1
          /\ \A k \in DOMAIN people :
                people[k].username = u => people[k].total_points = BestPoints(u, E)
    /\ \A k \in DOMAIN people : people[k].username \in PeopleNames(E)

\* C9: when every file is processed without an error, the returned people list
\* holds exactly one entry per non-bot username that occurs in any file, carrying
\* that username's maximum total_points over all files.
C9_DedupHighestScoreWins ==
    (pc = "done" /\ response.status = 200 /\ ~failed) =>
        IsMergeOf(response.people, goodEntries)

C9_Witness ==
    /\ pc = "done" /\ response.status = 200 /\ ~failed
    /\ filesRead = 2
    /\ \E e \in goodEntries : BotLike(e.username)
    /\ \E e, f \in goodEntries :
          /\ e.username = f.username /\ ~BotLike(e.username)
          /\ e.total_points > f.total_points
    /\ allContributors # <<>>
    /\ allContributors[Len(allContributors)].username # Abbot
    /\ IsMergeOf(response.people, goodEntries)

\* C10: when the processing of some file raises an error, the handler still
\* answers 200 and its people list and updatedAt are those of the merge of the
\* files that raised no error.
C10_FailingFileSkippedAsAWhole ==
    (pc = "done" /\ failed) =>
        /\ response.status = 200
        /\ IsMergeOf(response.people, goodEntries)
        /\ response.updatedAt = Latest(goodStamps)

====
